---------------------------- MODULE Spec2Model ----------------------------
(***************************************************************************)
(* Model of the AIS collector (src/ais_collector.py): the main block and   *)
(* the startup of connect_ais_stream, the feed connection lifecycle with   *)
(* exponential backoff, the filters and the per-message classification     *)
(* into four pending batches, the MMSI to IMO mapping, and the batched      *)
(* transactional flush of the loop and of process_pending_batches.         *)
(*                                                                         *)
(* Python None is modelled as the empty tuple <<>> and a present value v   *)
(* as <<v>> (message fields), a dict as a function whose DOMAIN is the set *)
(* of keys.  Times are in seconds; retry_delay is in hundredths of a       *)
(* second so that the jitter factor can be a whole percentage.             *)
(***************************************************************************)
EXTENDS Integers, Sequences, FiniteSets, TLC

(* ------------------------------ bounds -------------------------------- *)

\* Number of feed messages read in one behaviour.
MaxMsgs == 3

\* Longest run of consecutive failed connection attempts while messages flow.
MaxFaultRun == 1

\* Longest run of consecutive failed connection attempts of the backoff study.
MaxAttempts == 9

(* ------------------------ program constants --------------------------- *)

\* BATCH_SIZE of the collector, scaled down from 100 to keep the batches small.
BATCH_SIZE == 3

\* "current_time - last_commit_time >= 10"
FLUSH_INTERVAL == 10

MAX_DB_RETRIES == 3

min_retry_delay == 1

max_retry_delay == 60

\* random.uniform(0.8, 1.2), as percentages: both ends and the middle.
JitterPercents == {80, 100, 120}

\* Seconds that may pass while the loop waits for the next feed message.
TimeSteps == {0, 5}

MMSIs == {1}

IMOs == {1}

\* ImoNumber of a ShipStaticData message: null, 0 or a valid number.
RawImos == {<<>>, <<0>>} \cup {<<i>> : i \in IMOs}

\* IMO numbers of the identity study: two vessels.
FeedImos == {1, 2}

\* MetaData.MMSI in the identity study: absent, 0 or a vessel's.
FeedMmsis == {<<>>, <<0>>} \cup {<<m>> : m \in MMSIs}

\* NORTH_SEA_BBOX, the box of the subscription, on a small grid.
NORTH_SEA_BBOX == [lat_min |-> 0, lat_max |-> 6, lon_min |-> 0, lon_max |-> 2]

\* The region boundary read from the shapefile: two polygons inside the box,
\* with a gap between them.
north_sea_shape ==
    <<[lat_min |-> 0, lat_max |-> 2, lon_min |-> 0, lon_max |-> 2],
      [lat_min |-> 4, lat_max |-> 6, lon_min |-> 0, lon_max |-> 2]>>

\* shapely's polygon.contains(point): the interior, not the boundary.
contains(polygon, lat, lon) ==
    /\ polygon.lat_min < lat /\ lat < polygon.lat_max
    /\ polygon.lon_min < lon /\ lon < polygon.lon_max

\* Mutant: the bounding box of the subscription is the only filter.
InBoundingBox(latitude, longitude, shape) ==
    /\ latitude # <<>> /\ longitude # <<>>
    /\ NORTH_SEA_BBOX.lat_min <= latitude[1] /\ latitude[1] <= NORTH_SEA_BBOX.lat_max
    /\ NORTH_SEA_BBOX.lon_min <= longitude[1] /\ longitude[1] <= NORTH_SEA_BBOX.lon_max

\* is_point_in_north_sea: False without coordinates, else whether any polygon
\* contains the point.
is_point_in_north_sea(latitude, longitude, shape) ==
    IF latitude = <<>> \/ longitude = <<>>
    THEN FALSE
    ELSE \E i \in 1..Len(shape) : contains(shape[i], latitude[1], longitude[1])

\* What the message loop does with a message before classifying it:
\* "badjson"  json.loads raises JSONDecodeError,
\* "notype"   the object has no MessageType,
\* "nometa"   the object has no MetaData (KeyError),
\* "nocoords" latitude or longitude is absent,
\* "outside"  the point is in no polygon of the region,
\* "badts"    time_utc does not match the timestamp pattern,
\* "ok"       the message passes all of these.
Verdicts == {"ok", "badjson", "notype", "nometa", "nocoords", "outside", "badts"}

\* The checks of the message loop, in the order of the code.
Verdict(msg) ==
    IF ~msg.decodes THEN "badjson"
    ELSE IF msg.type = <<>> THEN "notype"
    ELSE IF ~msg.metadata THEN "nometa"
    ELSE IF msg.latitude = <<>> \/ msg.longitude = <<>> THEN "nocoords"
    ELSE IF ~is_point_in_north_sea(msg.latitude, msg.longitude, north_sea_shape)
         THEN "outside"
    ELSE IF msg.time_utc # "wellformed" THEN "badts"
    ELSE "ok"

\* A feed message that decodes, has all its parts and lies in the region.
WellFormed(type, mmsi, imo) ==
    [decodes |-> TRUE, type |-> <<type>>, metadata |-> TRUE, mmsi |-> mmsi,
     latitude |-> <<1>>, longitude |-> <<1>>, time_utc |-> "wellformed",
     imo |-> imo]

StaticMessages ==
    {WellFormed("ShipStaticData", <<m>>, i) : m \in MMSIs, i \in RawImos}

PositionMessages ==
    {WellFormed("PositionReport", <<m>>, <<>>) : m \in MMSIs}

OtherMessages == {WellFormed("Other", <<1>>, <<>>)}

\* One message for each of three ways of being discarded.
DiscardedMessages ==
    LET msg == WellFormed("PositionReport", <<1>>, <<>>)
    IN {[msg EXCEPT !.decodes = FALSE],
        [msg EXCEPT !.latitude = <<3>>],
        [msg EXCEPT !.time_utc = "malformed"]}

\* The identity study: every MMSI with every valid IMO, the static messages
\* without one, and one from the gap between the polygons.
FeedStaticMessages ==
    {WellFormed("ShipStaticData", m, <<i>>) : m \in FeedMmsis, i \in FeedImos}
      \cup StaticMessages
      \cup {[WellFormed("ShipStaticData", <<1>>, <<1>>) EXCEPT !.latitude = <<3>>]}

\* Position reports of every MMSI, and one from the second polygon.
FeedPositionMessages ==
    {WellFormed("PositionReport", m, <<>>) : m \in FeedMmsis}
      \cup {[WellFormed("PositionReport", <<1>>, <<>>) EXCEPT !.latitude = <<5>>]}

\* Every way of being discarded: the three above, an object with no
\* MessageType, one with no MetaData, one with no latitude, one with no
\* longitude, and a point on the boundary of a polygon.
FeedDiscardedMessages ==
    LET msg == WellFormed("ShipStaticData", <<1>>, <<1>>)
    IN DiscardedMessages \cup
       {[msg EXCEPT !.type = <<>>],
        [msg EXCEPT !.metadata = FALSE],
        [msg EXCEPT !.latitude = <<>>],
        [msg EXCEPT !.longitude = <<>>],
        [msg EXCEPT !.latitude = <<2>>]}

\* No message is being processed.
NoMessage == <<>>

VARIABLES
    pc,                  \* position of the process
    exit_code,           \* exit status of the process, <<>> while it runs
    save_no_imo,         \* SAVE_NO_IMO_VESSELS
    db_attempt,          \* attempt of the startup connection loop
    db_waits,            \* the sleeps of the startup connection loop, in order
    conn_closed,         \* conn.closed
    connected,
    retry_attempts,
    retry_delay,         \* delay slept before the current attempt (1/100 s)
    streaming,           \* a message has been read on the current connection
    mmsi_to_imo,
    ships_batch,
    static_data_batch,
    position_data_batch,
    unknown_data_batch,
    elapsed,             \* current_time - last_commit_time, saturated
    since_commit,        \* time since the last commit of either flush, saturated
    db,                  \* committed content of the four tables
    txn,                 \* rows written by the open transaction
    nmsgs,               \* messages read so far
    flush_log,           \* what the last flush decision logged
    message,             \* the message of the iteration in progress
    imo_queries,         \* find_imo_by_mmsi queries sent by that iteration
    stats,               \* filtered_count, no_imo_filtered_count and the
                         \* two sets of unique vessels
    ship_data,           \* argument of the dimension computations
    collector_dimensions, \* (length, width) of the collector's inline code
    service_dimensions,  \* (length, width) of calculate_correct_dimensions
    timestamp_str,       \* argument of parse_timestamp
    parsed_dt            \* what parse_timestamp returned or raised

vars == <<pc, exit_code, save_no_imo, db_attempt, db_waits, conn_closed, connected,
          retry_attempts, retry_delay, streaming, mmsi_to_imo, ships_batch,
          static_data_batch, position_data_batch, unknown_data_batch, elapsed,
          since_commit, db, txn, nmsgs, flush_log, message, imo_queries, stats,
          ship_data, collector_dimensions, service_dimensions, timestamp_str,
          parsed_dt>>

batches == <<ships_batch, static_data_batch, position_data_batch, unknown_data_batch>>

conn_vars == <<db_attempt, conn_closed, connected, retry_attempts, retry_delay, streaming>>

\* What only the startup writes, and what only an iteration of the message
\* loop writes.
startup_vars == <<exit_code, save_no_imo, db_waits>>

iteration_vars == <<message, imo_queries, stats>>

\* The state of the collector process.
process_vars == <<pc, exit_code, save_no_imo, db_attempt, db_waits, conn_closed,
                  connected, retry_attempts, retry_delay, streaming, mmsi_to_imo,
                  ships_batch, static_data_batch, position_data_batch,
                  unknown_data_batch, elapsed, since_commit, db, txn, nmsgs,
                  flush_log, message, imo_queries, stats>>

\* What the study of the functions writes: arguments and results.
function_vars == <<ship_data, collector_dimensions, service_dimensions,
                   timestamp_str, parsed_dt>>

(* ------------------------------ helpers ------------------------------- *)

Min(a, b) == IF a <= b THEN a ELSE b

RECURSIVE Pow2(_)
Pow2(n) == IF n <= 0 THEN 1 ELSE 2 * Pow2(n - 1)

EmptyTables == [ships |-> <<>>, static |-> <<>>, position |-> <<>>, unknown |-> <<>>]

NoFlush == [site |-> "none", committed |-> FALSE]

PendingCount(b) == Len(b[1]) + Len(b[2]) + Len(b[3]) + Len(b[4])

(* --------------------------- reconnect delay -------------------------- *)

\* Mutant: the delay is not capped.
BaseDelayUncapped(n) == min_retry_delay * Pow2(n - 1)

\* min(max_retry_delay, min_retry_delay * (2 ** (retry_attempts - 1)))
BaseDelay(n) == Min(max_retry_delay, min_retry_delay * Pow2(n - 1))

\* retry_delay *= jitter
JitteredDelay(n, jitter) == BaseDelay(n) * jitter

(* ------------------------------ the store ----------------------------- *)

\* Mutant: ON CONFLICT (imo_number) DO NOTHING.
UpsertShipKeepFirst(table, row) ==
    IF \E i \in 1..Len(table) : table[i].imo = row.imo
    THEN table
    ELSE Append(table, row)

\* Mutant: the conflicting row takes the MMSI of the new row too.
UpsertShipOverwriteMmsi(table, row) ==
    IF \E i \in 1..Len(table) : table[i].imo = row.imo
    THEN [i \in 1..Len(table) |->
             IF table[i].imo = row.imo
             THEN [table[i] EXCEPT !.name = row.name, !.mmsi = row.mmsi]
             ELSE table[i]]
    ELSE Append(table, row)

\* INSERT INTO ships ... ON CONFLICT (imo_number) DO UPDATE SET name = ...:
\* the registry is a sequence of rows with distinct imo; a conflicting row keeps
\* its mmsi and takes the new attributes.
UpsertShip(table, row) ==
    IF \E i \in 1..Len(table) : table[i].imo = row.imo
    THEN [i \in 1..Len(table) |->
             IF table[i].imo = row.imo
             THEN [table[i] EXCEPT !.name = row.name]
             ELSE table[i]]
    ELSE Append(table, row)

RECURSIVE UpsertShips(_, _)
UpsertShips(table, rows) ==
    IF rows = <<>> THEN table
    ELSE UpsertShips(UpsertShip(table, Head(rows)), Tail(rows))

\* cursor.executemany on each non-empty batch before statement k fails
\* (k = 0: no statement fails); statement 5 is the commit.
Executed(t, b, k) ==
    [ships    |-> IF k = 0 \/ k > 1 THEN t.ships \o b[1] ELSE t.ships,
     static   |-> IF k = 0 \/ k > 2 THEN t.static \o b[2] ELSE t.static,
     position |-> IF k = 0 \/ k > 3 THEN t.position \o b[3] ELSE t.position,
     unknown  |-> IF k = 0 \/ k > 4 THEN t.unknown \o b[4] ELSE t.unknown]

\* Mutant: the rows of a commit are stored in front of the table's rows.
CommitInFront(d, t) ==
    [ships    |-> UpsertShips(d.ships, t.ships),
     static   |-> t.static \o d.static,
     position |-> t.position \o d.position,
     unknown  |-> t.unknown \o d.unknown]

\* conn.commit(): the open transaction's rows become the tables' content.
Commit(d, t) ==
    [ships    |-> UpsertShips(d.ships, t.ships),
     static   |-> d.static \o t.static,
     position |-> d.position \o t.position,
     unknown  |-> d.unknown \o t.unknown]

\* Mutant: the rollback leaves the transaction's rows in place.
RollbackKeepsRows(t) == t

\* conn.rollback(): the open transaction's rows are discarded.
Rollback(t) == EmptyTables

\* Statement k of a flush can fail only if it is executed.
CanFailAt(b, k) == k = 5 \/ (k \in 1..4 /\ b[k] # <<>>)

\* ship_data.imo_number REFERENCES ships(imo_number): every position row of the
\* batch has its IMO in the registry as the transaction sees it, the upserts of
\* the same flush included.
ForeignKeyHolds(d, t, b) ==
    LET registry == UpsertShips(d.ships, t.ships \o b[1])
    IN \A j \in 1..Len(b[3]) :
          \E i \in 1..Len(registry) : registry[i].imo = b[3][j].imo

\* The statements at which a flush can fail: any that is executed, and none
\* after the INSERT INTO ship_data (statement 3) when that one violates the
\* foreign key, in which case no flush commits.
FailsAt(d, t, b, k) ==
    /\ CanFailAt(b, k)
    /\ ForeignKeyHolds(d, t, b) \/ k <= 3

CanCommit(d, t, b) == ForeignKeyHolds(d, t, b)

\* "if mmsi:", "if not mmsi:", "if mmsi and imo:" on a value that may be None.
Truthy(x) == x # <<>> /\ x # <<0>>

\* "if not mmsi: return None", else
\* SELECT imo_number FROM ships WHERE mmsi = %s LIMIT 1
find_imo_by_mmsi(d, mmsi) ==
    IF ~Truthy(<<mmsi>>) THEN <<>>
    ELSE IF \E i \in 1..Len(d.ships) : d.ships[i].mmsi = <<mmsi>>
    THEN LET i == CHOOSE j \in 1..Len(d.ships) :
                      /\ d.ships[j].mmsi = <<mmsi>>
                      /\ \A h \in 1..(j - 1) : d.ships[h].mmsi # <<mmsi>>
         IN <<d.ships[i].imo>>
    ELSE <<>>

\* SELECT destination FROM ship_static_data_temp WHERE imo_number = %s
\* ORDER BY timestamp_ais DESC LIMIT 1 (0: no row).
get_recent_destination(d, imo) ==
    IF \E i \in 1..Len(d.static) : d.static[i].imo = imo
    THEN LET i == CHOOSE j \in 1..Len(d.static) :
                      /\ d.static[j].imo = imo
                      /\ \A h \in (j + 1)..Len(d.static) : d.static[h].imo # imo
         IN d.static[i].id
    ELSE 0

\* SELECT mmsi, imo_number FROM ships WHERE mmsi IS NOT NULL, into a dict
\* "if mmsi and imo" (a later row of the same mmsi overwrites an earlier one).
load_mmsi_to_imo_mapping(d) ==
    LET loaded == {i \in 1..Len(d.ships) :
                      Truthy(d.ships[i].mmsi) /\ Truthy(<<d.ships[i].imo>>)}
        keys == {d.ships[i].mmsi[1] : i \in loaded}
    IN IF keys = {} THEN <<>> ELSE
       [m \in keys |->
           LET i == CHOOSE j \in loaded :
                        /\ d.ships[j].mmsi = <<m>>
                        /\ \A h \in loaded : h > j => d.ships[h].mmsi # <<m>>
           IN d.ships[i].imo]

\* The tables as an earlier run of the collector may have left them: a vessel
\* with an MMSI, and one whose static messages carried MMSI 0.
StoredTables ==
    [EmptyTables EXCEPT !.ships = <<[imo |-> 2, mmsi |-> <<1>>, name |-> 0],
                                    [imo |-> 1, mmsi |-> <<0>>, name |-> 0]>>]

(* --------------------------- flush condition -------------------------- *)

\* Mutant: the batch must be exceeded, not reached.
FlushDueAboveSize(b, el) == PendingCount(b) > BATCH_SIZE \/ el >= FLUSH_INTERVAL

\* len(ships_batch) + ... >= BATCH_SIZE or current_time - last_commit_time >= 10
FlushDue(b, el) == PendingCount(b) >= BATCH_SIZE \/ el >= FLUSH_INTERVAL

(* ------------------------------ startup ------------------------------- *)

NoStats == [filtered_count |-> 0, no_imo_filtered_count |-> 0,
            unique_vessels |-> {}, unique_vessels_with_imo |-> {}]

\* The process starts with the store holding the tables d.
InitWith(d) ==
    /\ pc = "main"
    /\ exit_code = <<>>
    /\ save_no_imo \in BOOLEAN
    /\ db_attempt = 0
    /\ db_waits = <<>>
    /\ conn_closed = TRUE
    /\ connected = FALSE
    /\ retry_attempts = 0
    /\ retry_delay = 0
    /\ streaming = FALSE
    /\ mmsi_to_imo = <<>>
    /\ ships_batch = <<>>
    /\ static_data_batch = <<>>
    /\ position_data_batch = <<>>
    /\ unknown_data_batch = <<>>
    /\ elapsed = 0
    /\ since_commit = 0
    /\ db = d
    /\ txn = EmptyTables
    /\ nmsgs = 0
    /\ flush_log = NoFlush
    /\ message = NoMessage
    /\ imo_queries = 0
    /\ stats = NoStats

\* No function of the study has been called.
NoCalls ==
    /\ ship_data = <<>>
    /\ collector_dimensions = <<>>
    /\ service_dimensions = <<>>
    /\ timestamp_str = <<>>
    /\ parsed_dt = <<>>

Init == InitWith(EmptyTables) /\ NoCalls

InitStored == InitWith(StoredTables) /\ NoCalls

\* The status with which the interpreter ends when the main block is left,
\* through its except clause or off its end: nothing calls sys.exit.
ExitCode(cause) == 0

\* The main block does not reach connect_ais_stream: migrate_database
\* raises, the shapefile is not found, or it cannot be read.
MainCauses == {"exit_migrate", "exit_noshape", "exit_badshape"}

MainFail ==
    /\ pc = "main"
    /\ \E cause \in MainCauses :
          /\ pc' = cause
          /\ exit_code' = <<ExitCode(cause)>>
    /\ UNCHANGED <<save_no_imo, db_waits, conn_vars, mmsi_to_imo, ships_batch,
                   static_data_batch, position_data_batch, unknown_data_batch,
                   elapsed, since_commit, db, txn, nmsgs, flush_log,
                   iteration_vars>>
    /\ UNCHANGED function_vars

\* The shapefile is found and loads: asyncio.run(connect_ais_stream()).
MainStart ==
    /\ pc = "main"
    /\ pc' = "startup"
    /\ UNCHANGED <<startup_vars, conn_vars, mmsi_to_imo, ships_batch,
                   static_data_batch, position_data_batch, unknown_data_batch,
                   elapsed, since_commit, db, txn, nmsgs, flush_log,
                   iteration_vars>>
    /\ UNCHANGED function_vars

\* Mutant: every wait of the startup loop is one second.
StartupSleepConstant(attempt) == 1

\* await asyncio.sleep(2 ** attempt)
StartupSleep(attempt) == Pow2(attempt)

\* psycopg2.connect fails: the last attempt returns from connect_ais_stream and
\* the process ends, the others sleep and retry.
StartupConnectFail ==
    /\ pc = "startup"
    /\ IF db_attempt = MAX_DB_RETRIES - 1
       THEN /\ pc' = "exit_db"
            /\ exit_code' = <<ExitCode("db")>>
            /\ UNCHANGED <<db_attempt, db_waits>>
       ELSE /\ pc' = "startup"
            /\ db_attempt' = db_attempt + 1
            /\ db_waits' = Append(db_waits, StartupSleep(db_attempt))
            /\ UNCHANGED exit_code
    /\ UNCHANGED <<save_no_imo, conn_closed, connected, retry_attempts, retry_delay,
                   streaming, mmsi_to_imo, ships_batch, static_data_batch,
                   position_data_batch, unknown_data_batch, elapsed, since_commit, db, txn,
                   nmsgs, flush_log, iteration_vars>>
    /\ UNCHANGED function_vars

\* psycopg2.connect succeeds, then the region boundary and the mapping are loaded;
\* load_north_sea_shapefile re-raises what it cannot read, and the process ends;
\* load_mmsi_to_imo_mapping returns an empty dict when its query raises.
StartupConnectOK ==
    /\ pc = "startup"
    /\ conn_closed' = FALSE
    /\ \E shape_ok \in BOOLEAN :
          IF shape_ok
          THEN /\ pc' = "loop"
               /\ \E load_ok \in BOOLEAN :
                     mmsi_to_imo' = IF load_ok THEN load_mmsi_to_imo_mapping(db)
                                    ELSE <<>>
               /\ UNCHANGED exit_code
          ELSE /\ pc' = "exit_shape"
               /\ exit_code' = <<ExitCode("shape")>>
               /\ UNCHANGED mmsi_to_imo
    /\ UNCHANGED <<save_no_imo, db_attempt, db_waits, connected, retry_attempts,
                   retry_delay, streaming, ships_batch, static_data_batch,
                   position_data_batch, unknown_data_batch, elapsed, since_commit, db, txn,
                   nmsgs, flush_log, iteration_vars>>
    /\ UNCHANGED function_vars

(* ------------------------- connection lifecycle ----------------------- *)

\* Mutant: a delay is slept before every attempt, the first of a run too.
DelayBeforeEveryAttempt(n, jitter) == JitteredDelay(n + 1, jitter)

\* Top of "while True": the delay slept before the attempt that follows n
\* failed ones; none before the first.
SleptDelay(n, jitter) == IF n > 0 THEN JitteredDelay(n, jitter) ELSE 0

\* Mutant: the counter survives the subscription.
AttemptsKept(n) == n

\* "retry_attempts = 0" after the subscription is sent.
AttemptsAfterSubscribe(n) == 0

\* One pass from the top of the loop into the receive loop: the delay is
\* slept, the attempt is counted, websockets.connect and websocket.send
\* succeed, then "connected = True; retry_attempts = 0".
Subscribe ==
    /\ pc = "loop"
    /\ pc' = "recv"
    /\ connected' = TRUE
    /\ \E jitter \in JitterPercents :
          retry_delay' = SleptDelay(retry_attempts, jitter)
    /\ retry_attempts' = AttemptsAfterSubscribe(retry_attempts + 1)
    /\ streaming' = FALSE
    /\ UNCHANGED <<startup_vars, db_attempt, conn_closed, mmsi_to_imo, ships_batch,
                   static_data_batch, position_data_batch, unknown_data_batch,
                   elapsed, since_commit, db, txn, nmsgs, flush_log,
                   iteration_vars>>
    /\ UNCHANGED function_vars

\* The server closes the connection cleanly: "async for" ends without an
\* exception, the "async with" block is left and the loop starts over.
CleanClose ==
    /\ pc = "recv"
    /\ pc' = "loop"
    /\ UNCHANGED <<startup_vars, conn_vars, mmsi_to_imo, ships_batch,
                   static_data_batch, position_data_batch, unknown_data_batch,
                   elapsed, since_commit, db, txn, nmsgs, flush_log,
                   iteration_vars>>
    /\ UNCHANGED function_vars

\* Mutant: the loop has no "except Exception" clause.
HandlerWithoutCatchAll(exc) ==
    CASE exc = "ConnectionClosedError" -> "flush_pending"
      [] exc = "WebSocketException"    -> "reset_connected"
      [] OTHER                         -> "propagate"

\* The except clauses of the loop, in order; an exception none of them names
\* leaves connect_ais_stream.
Handler(exc) ==
    CASE exc = "ConnectionClosedError" -> "flush_pending"
      [] exc = "WebSocketException"    -> "reset_connected"
      [] exc = "Exception"             -> "reset_connected"
      [] OTHER                         -> "propagate"

Exceptions == {"ConnectionClosedError", "WebSocketException", "Exception"}

\* Where an exception that has left the connection block takes the loop.
AfterException(exc) == IF Handler(exc) = "propagate" THEN "raised" ELSE "loop"

\* "except WebSocketException" and "except Exception": connected = False.
ResetConnected(exc) ==
    /\ pc' = AfterException(exc)
    /\ connected' = FALSE
    /\ UNCHANGED <<conn_closed, ships_batch, static_data_batch,
                   position_data_batch, unknown_data_batch, since_commit, db,
                   txn, flush_log>>

\* process_pending_batches: the four batches in one transaction.  k = 0: the
\* commit succeeds.  Otherwise statement k raises and the except clause rolls
\* back; with the connection lost the rollback raises too.
PendingCommitted(k) == k = 0

\* "except ConnectionClosedError": with connected set and records pending on an
\* open store connection, process_pending_batches runs and the four batches
\* are reset when it returns; when its rollback raises they are kept.
FlushPending ==
    /\ pc' = "loop"
    /\ connected' = FALSE
    /\ IF connected /\ PendingCount(batches) > 0 /\ ~conn_closed
       THEN \E k \in 0..5, lost \in BOOLEAN :
               /\ IF k = 0 THEN CanCommit(db, txn, batches)
                           ELSE FailsAt(db, txn, batches, k)
               /\ k = 0 => ~lost
               /\ db' = IF PendingCommitted(k)
                        THEN Commit(db, Executed(txn, batches, k))
                        ELSE db
               /\ txn' = IF PendingCommitted(k)
                         THEN EmptyTables
                         ELSE IF lost THEN EmptyTables
                              ELSE Rollback(Executed(txn, batches, k))
               /\ conn_closed' = lost
               /\ since_commit' = IF PendingCommitted(k) THEN 0 ELSE since_commit
               /\ flush_log' = [site |-> "pending", committed |-> PendingCommitted(k)]
               /\ IF lost
                  THEN UNCHANGED <<ships_batch, static_data_batch,
                                   position_data_batch, unknown_data_batch>>
                  ELSE /\ ships_batch' = <<>>
                       /\ static_data_batch' = <<>>
                       /\ position_data_batch' = <<>>
                       /\ unknown_data_batch' = <<>>
       ELSE UNCHANGED <<conn_closed, ships_batch, static_data_batch,
                        position_data_batch, unknown_data_batch, since_commit, db,
                        txn, flush_log>>

\* An exception leaves the "async with" block: the matching except clause.
Fault(exc) ==
    IF Handler(exc) = "flush_pending" THEN FlushPending ELSE ResetConnected(exc)

\* One pass from the top of the loop in which websockets.connect or the
\* subscription raises: the delay is slept, the attempt is counted and the
\* exception is handled.  At most `run` attempts fail in a row.
ConnectFaultWithin(run) ==
    /\ pc = "loop"
    /\ retry_attempts < run
    /\ \E jitter \in JitterPercents :
          retry_delay' = SleptDelay(retry_attempts, jitter)
    /\ retry_attempts' = retry_attempts + 1
    /\ \E exc \in Exceptions : Fault(exc)
    /\ UNCHANGED <<startup_vars, db_attempt, streaming, mmsi_to_imo, elapsed, nmsgs,
                   iteration_vars>>
    /\ UNCHANGED function_vars

ConnectFault == ConnectFaultWithin(MaxFaultRun)

ConnectFaultLong == ConnectFaultWithin(MaxAttempts)

\* The connection breaks while the loop waits for a message.
StreamFault ==
    /\ pc = "recv"
    /\ \E exc \in Exceptions : Fault(exc)
    /\ UNCHANGED <<startup_vars, db_attempt, retry_attempts, retry_delay, streaming,
                   mmsi_to_imo, elapsed, nmsgs, iteration_vars>>
    /\ UNCHANGED function_vars

(* ----------------------------- message loop --------------------------- *)

\* Mutant: only a null ImoNumber is invalid.
ValidImoNotNull(raw) == raw # <<>>

\* "raw_imo_number is not None and raw_imo_number != 0"
ValidImo(raw) == raw # <<>> /\ raw # <<0>>

\* Time passes while the next message is awaited.
Waited(d) == Min(FLUSH_INTERVAL, elapsed + d)

\* A message is read while conn.closed and the store cannot be reached:
\* psycopg2.connect raises before the message is decoded, the handler's
\* rollback on the closed connection raises again, and the exception leaves
\* the connection block.
ReceiveStoreDown ==
    /\ pc = "recv"
    /\ nmsgs < MaxMsgs
    /\ conn_closed
    /\ \E d \in TimeSteps :
          /\ elapsed' = Waited(d)
          /\ since_commit' = Min(FLUSH_INTERVAL, since_commit + d)
    /\ nmsgs' = nmsgs + 1
    /\ streaming' = TRUE
    /\ pc' = AfterException("Exception")
    /\ connected' = FALSE
    /\ UNCHANGED <<startup_vars, db_attempt, conn_closed, retry_attempts, retry_delay,
                   mmsi_to_imo, ships_batch, static_data_batch,
                   position_data_batch, unknown_data_batch, db, txn, flush_log,
                   iteration_vars>>
    /\ UNCHANGED function_vars

\* What every message that is read does first: the store connection is open
\* or is reopened, and the clock has moved.
Read(d) ==
    /\ pc = "recv"
    /\ nmsgs < MaxMsgs
    /\ elapsed' = Waited(d)
    /\ since_commit' = Min(FLUSH_INTERVAL, since_commit + d)
    /\ nmsgs' = nmsgs + 1
    /\ streaming' = TRUE
    /\ conn_closed' = FALSE
    /\ UNCHANGED <<startup_vars, db_attempt, connected, retry_attempts, retry_delay,
                   db, txn, flush_log>>
    /\ UNCHANGED function_vars

\* Where the iteration goes after the filters: a message that passes them
\* reaches the flush condition; any other ends the iteration ("continue", the
\* JSONDecodeError clause, or the KeyError of a missing MetaData).
AfterFilters(msg) == IF Verdict(msg) = "ok" THEN "check" ELSE "discard"

\* "filtered_count += 1" is reached only by a point that is_point_in_north_sea
\* rejects; absent coordinates "continue" before it.
Filtered(s, msg) ==
    IF Verdict(msg) = "outside"
    THEN [s EXCEPT !.filtered_count = @ + 1]
    ELSE s

\* What a message that does not pass the filters leaves behind.
Discarded(msg) ==
    /\ imo_queries' = 0
    /\ stats' = Filtered(stats, msg)
    /\ UNCHANGED <<mmsi_to_imo, ships_batch, static_data_batch,
                   position_data_batch, unknown_data_batch>>

\* A message that is discarded before it is classified.
ReceiveDiscardedFrom(feed) ==
    \E msg \in feed, d \in TimeSteps :
       /\ Verdict(msg) # "ok"
       /\ Read(d)
       /\ message' = msg
       /\ pc' = AfterFilters(msg)
       /\ Discarded(msg)

ReceiveDiscarded == ReceiveDiscardedFrom(DiscardedMessages)

ReceiveDiscardedFeed == ReceiveDiscardedFrom(FeedDiscardedMessages)

\* The iteration of a discarded message ends: the next message is awaited,
\* except that the KeyError of a missing MetaData is no JSONDecodeError and no
\* psycopg2.Error, so it leaves the connection block through "except Exception".
EndDiscarded ==
    /\ pc = "discard"
    /\ message' = NoMessage
    /\ IF Verdict(message) = "nometa"
       THEN /\ pc' = AfterException("Exception")
            /\ connected' = FALSE
       ELSE /\ pc' = "recv"
            /\ UNCHANGED connected
    /\ UNCHANGED <<startup_vars, db_attempt, conn_closed, retry_attempts, retry_delay,
                   streaming, mmsi_to_imo, ships_batch, static_data_batch,
                   position_data_batch, unknown_data_batch, elapsed, since_commit,
                   db, txn, nmsgs, flush_log, imo_queries, stats>>
    /\ UNCHANGED function_vars

\* A message of a type that is neither ShipStaticData nor PositionReport.
ReceiveOther ==
    \E msg \in OtherMessages, d \in TimeSteps :
       /\ Read(d)
       /\ message' = msg
       /\ imo_queries' = 0
       /\ pc' = AfterFilters(msg)
       /\ UNCHANGED <<mmsi_to_imo, ships_batch, static_data_batch,
                      position_data_batch, unknown_data_batch, stats>>

\* The statistics after a ShipStaticData message: "if mmsi:" guards both sets,
\* and a message without a valid IMO is counted when it is not saved.
StaticStats(s, msg, save) ==
    [s EXCEPT
       !.unique_vessels = IF Truthy(msg.mmsi) THEN @ \cup {msg.mmsi[1]} ELSE @,
       !.unique_vessels_with_imo =
           IF Truthy(msg.mmsi) /\ ValidImo(msg.imo) THEN @ \cup {msg.mmsi[1]} ELSE @,
       !.no_imo_filtered_count =
           IF ~ValidImo(msg.imo) /\ ~save THEN @ + 1 ELSE @]

\* Mutant: the mapping keeps the first IMO recorded for an MMSI.
RecordKeepFirst(map, mmsi, raw) ==
    IF ValidImo(raw) /\ mmsi # <<>> /\ mmsi[1] \notin DOMAIN map
    THEN (mmsi[1] :> raw[1]) @@ map
    ELSE map

\* "if raw_imo_number is not None and raw_imo_number != 0 and mmsi is not
\* None: mmsi_to_imo[mmsi] = raw_imo_number"
Record(map, mmsi, raw) ==
    IF ValidImo(raw) /\ mmsi # <<>>
    THEN (mmsi[1] :> raw[1]) @@ map
    ELSE map

\* Mutant: a static message without a valid IMO is saved whatever the switch.
SavedAlways(save) == TRUE

\* "if SAVE_NO_IMO_VESSELS:"
Saved(save) == save

\* if message["MessageType"] == "ShipStaticData"
ShipStaticData(msg) ==
       LET id == nmsgs + 1 IN
       /\ imo_queries' = 0
       /\ stats' = StaticStats(stats, msg, save_no_imo)
       /\ mmsi_to_imo' = Record(mmsi_to_imo, msg.mmsi, msg.imo)
       /\ ships_batch' = IF ValidImo(msg.imo)
                         THEN Append(ships_batch,
                                     [imo |-> msg.imo[1], mmsi |-> msg.mmsi, name |-> id])
                         ELSE ships_batch
       /\ static_data_batch' = IF ValidImo(msg.imo)
                               THEN Append(static_data_batch,
                                           [id |-> id, imo |-> msg.imo[1],
                                            mmsi |-> msg.mmsi,
                                            latitude |-> msg.latitude[1],
                                            longitude |-> msg.longitude[1]])
                               ELSE static_data_batch
       /\ unknown_data_batch' = IF ~ValidImo(msg.imo) /\ Saved(save_no_imo)
                                THEN Append(unknown_data_batch,
                                            [id |-> id,
                                             imo |-> IF msg.imo = <<>> THEN -1 ELSE 0,
                                             mmsi |-> msg.mmsi,
                                             latitude |-> msg.latitude[1],
                                             longitude |-> msg.longitude[1]])
                                ELSE unknown_data_batch
       /\ UNCHANGED position_data_batch

\* A ShipStaticData message is read: the filters, then the branch above.
ReceiveStaticFrom(feed) ==
    \E msg \in feed, d \in TimeSteps :
       /\ Read(d)
       /\ message' = msg
       /\ pc' = AfterFilters(msg)
       /\ IF Verdict(msg) = "ok" THEN ShipStaticData(msg) ELSE Discarded(msg)

ReceiveStatic == ReceiveStaticFrom(StaticMessages)

ReceiveStaticFeed == ReceiveStaticFrom(FeedStaticMessages)

\* The queries find_imo_by_mmsi sends for one resolve: it is called when the
\* mapping has no entry and mmsi is not None, and returns at once when mmsi
\* is 0.
StoreQueries(map, mmsi) ==
    IF mmsi # <<>> /\ mmsi[1] \notin DOMAIN map /\ Truthy(mmsi) THEN 1 ELSE 0

\* imo_number = mmsi_to_imo.get(mmsi), else find_imo_by_mmsi(conn, mmsi)
ResolveImo(map, d, mmsi) ==
    IF mmsi = <<>> THEN <<>>
    ELSE IF mmsi[1] \in DOMAIN map THEN <<map[mmsi[1]]>>
    ELSE find_imo_by_mmsi(d, mmsi[1])

\* The statistics after a PositionReport: "if mmsi:" guards unique_vessels,
\* "mmsi is not None" guards unique_vessels_with_imo, and a report without a
\* resolved IMO is counted when it is not saved.
PositionStats(s, msg, imo, save) ==
    [s EXCEPT
       !.unique_vessels = IF Truthy(msg.mmsi) THEN @ \cup {msg.mmsi[1]} ELSE @,
       !.unique_vessels_with_imo =
           IF imo # <<>> /\ msg.mmsi # <<>> THEN @ \cup {msg.mmsi[1]} ELSE @,
       !.no_imo_filtered_count =
           IF imo = <<>> /\ ~save THEN @ + 1 ELSE @]

\* elif message["MessageType"] == "PositionReport"
PositionReport(msg) ==
       LET id == nmsgs + 1
           imo == ResolveImo(mmsi_to_imo, db, msg.mmsi)
       IN
       /\ imo_queries' = StoreQueries(mmsi_to_imo, msg.mmsi)
       /\ stats' = PositionStats(stats, msg, imo, save_no_imo)
       /\ mmsi_to_imo' = IF imo # <<>>
                         THEN (msg.mmsi[1] :> imo[1]) @@ mmsi_to_imo
                         ELSE mmsi_to_imo
       /\ position_data_batch' =
             IF imo # <<>>
             THEN Append(position_data_batch,
                         [id |-> id, imo |-> imo[1],
                          dest |-> get_recent_destination(db, imo[1]),
                          latitude |-> msg.latitude[1],
                          longitude |-> msg.longitude[1]])
             ELSE position_data_batch
       /\ unknown_data_batch' = IF imo = <<>> /\ Saved(save_no_imo)
                                THEN Append(unknown_data_batch,
                                            [id |-> id, imo |-> -1, mmsi |-> msg.mmsi,
                                             latitude |-> msg.latitude[1],
                                             longitude |-> msg.longitude[1]])
                                ELSE unknown_data_batch
       /\ UNCHANGED <<ships_batch, static_data_batch>>

\* A PositionReport is read: the filters, then the branch above.
ReceivePositionFrom(feed) ==
    \E msg \in feed, d \in TimeSteps :
       /\ Read(d)
       /\ message' = msg
       /\ pc' = AfterFilters(msg)
       /\ IF Verdict(msg) = "ok" THEN PositionReport(msg) ELSE Discarded(msg)

ReceivePosition == ReceivePositionFrom(PositionMessages)

ReceivePositionFeed == ReceivePositionFrom(FeedPositionMessages)

(* ------------------------- flush in the message loop ------------------ *)

\* Mutant: a batch is never reset.
ClearedNever(b, i, k) == b[i]

\* "ships_batch = []" and the like follow each executemany, before the commit:
\* batch i is empty after the flush iff statement i was passed (k = 0: all).
Cleared(b, i, k) == IF k = 0 \/ k > i THEN <<>> ELSE b[i]

\* The iteration ends with the flush decision.
EndIteration ==
    /\ message' = NoMessage
    /\ imo_queries' = 0
    /\ UNCHANGED <<startup_vars, stats>>
    /\ UNCHANGED function_vars

\* The flush condition is false: the iteration ends.
FlushNotDue ==
    /\ pc = "check"
    /\ ~FlushDue(batches, elapsed)
    /\ pc' = "recv"
    /\ flush_log' = NoFlush
    /\ EndIteration
    /\ UNCHANGED <<conn_vars, mmsi_to_imo, ships_batch,
                   static_data_batch, position_data_batch, unknown_data_batch,
                   elapsed, since_commit, db, txn, nmsgs>>

\* Every executemany and the commit succeed: last_commit_time = current_time.
\* The store accepts the rows only if they satisfy the foreign key.
FlushCommit ==
    /\ pc = "check"
    /\ FlushDue(batches, elapsed)
    /\ CanCommit(db, txn, batches)
    /\ db' = Commit(db, Executed(txn, batches, 0))
    /\ txn' = EmptyTables
    /\ ships_batch' = Cleared(batches, 1, 0)
    /\ static_data_batch' = Cleared(batches, 2, 0)
    /\ position_data_batch' = Cleared(batches, 3, 0)
    /\ unknown_data_batch' = Cleared(batches, 4, 0)
    /\ elapsed' = 0
    /\ since_commit' = 0
    /\ flush_log' = [site |-> "batch", committed |-> TRUE]
    /\ pc' = "recv"
    /\ EndIteration
    /\ UNCHANGED <<conn_vars, mmsi_to_imo, nmsgs>>

\* Statement k raises psycopg2.Error and the connection stays usable (also an
\* OperationalError after which a connection is reopened, and the
\* IntegrityError of a violated foreign key): rollback, and the loop goes on
\* to the next message.
FlushError ==
    /\ pc = "check"
    /\ FlushDue(batches, elapsed)
    /\ \E k \in 1..5 :
          /\ FailsAt(db, txn, batches, k)
          /\ txn' = Rollback(Executed(txn, batches, k))
          /\ ships_batch' = Cleared(batches, 1, k)
          /\ static_data_batch' = Cleared(batches, 2, k)
          /\ position_data_batch' = Cleared(batches, 3, k)
          /\ unknown_data_batch' = Cleared(batches, 4, k)
    /\ flush_log' = [site |-> "batch", committed |-> FALSE]
    /\ pc' = "recv"
    /\ EndIteration
    /\ UNCHANGED <<conn_vars, mmsi_to_imo, elapsed, since_commit, db, nmsgs>>

\* Statement k raises OperationalError and the connection is lost: the
\* rollback raises, the outer handler's rollback raises again, and the
\* exception leaves the connection block.  The server drops the transaction.
FlushConnectionLost ==
    /\ pc = "check"
    /\ FlushDue(batches, elapsed)
    /\ \E k \in 1..5 :
          /\ FailsAt(db, txn, batches, k)
          /\ ships_batch' = Cleared(batches, 1, k)
          /\ static_data_batch' = Cleared(batches, 2, k)
          /\ position_data_batch' = Cleared(batches, 3, k)
          /\ unknown_data_batch' = Cleared(batches, 4, k)
    /\ txn' = EmptyTables
    /\ conn_closed' = TRUE
    /\ flush_log' = [site |-> "batch", committed |-> FALSE]
    /\ pc' = AfterException("Exception")
    /\ connected' = FALSE
    /\ EndIteration
    /\ UNCHANGED <<db_attempt, retry_attempts, retry_delay, streaming,
                   mmsi_to_imo, elapsed, since_commit, db, nmsgs>>

\* The message loop with its faults; the store is reached by the first attempt
\* of the startup.
Next ==
    \/ MainFail
    \/ MainStart
    \/ StartupConnectOK
    \/ Subscribe
    \/ CleanClose
    \/ ConnectFault
    \/ StreamFault
    \/ ReceiveStoreDown
    \/ ReceiveDiscarded
    \/ EndDiscarded
    \/ ReceiveOther
    \/ ReceiveStatic
    \/ ReceivePosition
    \/ FlushNotDue
    \/ FlushCommit
    \/ FlushError
    \/ FlushConnectionLost

Spec == Init /\ [][Next]_vars

\* The startup and the connection lifecycle alone, with failed attempts to
\* reach the store, long runs of failed connection attempts and no message
\* delivered.
NextBackoff ==
    \/ MainFail
    \/ MainStart
    \/ StartupConnectFail
    \/ StartupConnectOK
    \/ Subscribe
    \/ CleanClose
    \/ ConnectFaultLong
    \/ StreamFault

SpecBackoff == Init /\ [][NextBackoff]_vars

\* The identity study: the store holds an earlier run's vessels, the feed
\* carries every shape of message, and every flush commits.
NextFeed ==
    \/ MainFail
    \/ MainStart
    \/ StartupConnectOK
    \/ Subscribe
    \/ ReceiveDiscardedFeed
    \/ EndDiscarded
    \/ ReceiveOther
    \/ ReceiveStaticFeed
    \/ ReceivePositionFeed
    \/ FlushNotDue
    \/ FlushCommit

SpecFeed == InitStored /\ [][NextFeed]_vars

(* ------------------------------ recovery ------------------------------ *)

\* The INSERT INTO ship_data of a due flush violates the foreign key: the store
\* raises IntegrityError at statement 3 however healthy it is, the flush is
\* rolled back and the loop goes on to the next message.
FlushRejected ==
    /\ pc = "check"
    /\ FlushDue(batches, elapsed)
    /\ ~ForeignKeyHolds(db, txn, batches)
    /\ txn' = Rollback(Executed(txn, batches, 3))
    /\ ships_batch' = Cleared(batches, 1, 3)
    /\ static_data_batch' = Cleared(batches, 2, 3)
    /\ position_data_batch' = Cleared(batches, 3, 3)
    /\ unknown_data_batch' = Cleared(batches, 4, 3)
    /\ flush_log' = [site |-> "batch", committed |-> FALSE]
    /\ pc' = "recv"
    /\ EndIteration
    /\ UNCHANGED <<conn_vars, mmsi_to_imo, elapsed, since_commit, db, nmsgs>>

\* Messages keep arriving after the MaxMsgs that are told apart: each is of a
\* type that is not collected, comes some seconds after the one before, finds
\* the store reachable and reaches the flush condition.
ReceiveIdle ==
    /\ pc = "recv"
    /\ nmsgs = MaxMsgs
    /\ \E msg \in OtherMessages, d \in TimeSteps \ {0} :
          /\ elapsed' = Waited(d)
          /\ since_commit' = Min(FLUSH_INTERVAL, since_commit + d)
          /\ message' = msg
          /\ pc' = AfterFilters(msg)
    /\ streaming' = TRUE
    /\ conn_closed' = FALSE
    /\ imo_queries' = 0
    /\ UNCHANGED <<startup_vars, db_attempt, connected, retry_attempts, retry_delay,
                   mmsi_to_imo, ships_batch, static_data_batch, position_data_batch,
                   unknown_data_batch, db, txn, nmsgs, flush_log, stats>>
    /\ UNCHANGED function_vars

\* The store fails only while the first MaxMsgs messages are read,
StoreFault ==
    /\ nmsgs < MaxMsgs
    /\ \/ FlushError
       \/ FlushConnectionLost

\* and so does the feed.
FeedFault ==
    /\ nmsgs < MaxMsgs
    /\ \/ CleanClose
       \/ ConnectFault
       \/ StreamFault

\* The message loop with faults of the store and of the feed up to a point,
\* after which messages keep arriving and the store accepts connections and
\* writes.
NextRecovery ==
    \/ MainFail
    \/ MainStart
    \/ StartupConnectOK
    \/ Subscribe
    \/ FeedFault
    \/ ReceiveStoreDown
    \/ ReceiveDiscarded
    \/ EndDiscarded
    \/ ReceiveOther
    \/ ReceiveStatic
    \/ ReceivePosition
    \/ ReceiveIdle
    \/ FlushNotDue
    \/ FlushCommit
    \/ StoreFault
    \/ FlushRejected

\* The process keeps running: it reconnects, finishes each iteration and
\* takes the flush decision; the feed keeps delivering.
Fairness ==
    /\ WF_vars(Subscribe)
    /\ WF_vars(EndDiscarded)
    /\ WF_vars(ReceiveIdle)
    /\ WF_vars(FlushNotDue)
    /\ WF_vars(FlushCommit)
    /\ WF_vars(FlushRejected)

SpecRecovery == Init /\ [][NextRecovery]_vars /\ Fairness

(* --------------------------- vessel dimensions ------------------------ *)

\* The keys of a Dimension object and the values the study gives them; a key
\* can also be missing or null.
DimensionKeys == {"A", "B", "C", "D"}

DimensionValues == {0, 2}

\* dict.get(key): None for a missing key and for a null value.
Get(dict, key) == IF key \in DOMAIN dict THEN dict[key] ELSE <<>>

\* Every Dimension object over those keys and values, the empty one included.
DimensionObjects ==
    UNION {[K -> {<<>>} \cup {<<v>> : v \in DimensionValues}] : K \in SUBSET DimensionKeys}

\* The ShipStaticData objects of the study: without Dimension, with a null
\* Dimension, with each Dimension object.
ShipDataObjects ==
    {<<>>} \cup {[Dimension |-> <<>>]} \cup {[Dimension |-> <<d>>] : d \in DimensionObjects}

\* "if dimension:" on ship_data.get("Dimension", {}): neither None nor empty.
NonEmptyDict(x) == x # <<>> /\ DOMAIN x[1] # {}

\* ship_data.get("Dimension", {})
DimensionOf(sd) == IF "Dimension" \in DOMAIN sd THEN sd["Dimension"] ELSE << <<>> >>

\* The collector's inline computation of (length, width).
InlineDimensions(sd) ==
    LET dimension == DimensionOf(sd)
    IN IF NonEmptyDict(dimension)
       THEN LET a == Get(dimension[1], "A")
                b == Get(dimension[1], "B")
                c == Get(dimension[1], "C")
                d == Get(dimension[1], "D")
            IN <<IF a # <<>> /\ b # <<>> THEN <<a[1] + b[1]>> ELSE <<>>,
                 IF c # <<>> /\ d # <<>> THEN <<c[1] + d[1]>> ELSE <<>>>>
       ELSE << <<>>, <<>> >>

\* Mutant: a missing part counts as 0.
calculate_partial_dimensions(dimension_data) ==
    IF NonEmptyDict(dimension_data)
    THEN LET part(key) == IF Get(dimension_data[1], key) = <<>> THEN 0
                          ELSE Get(dimension_data[1], key)[1]
         IN << <<part("A") + part("B")>>, <<part("C") + part("D")>> >>
    ELSE << <<>>, <<>> >>

\* calculate_correct_dimensions of the correction service.
calculate_correct_dimensions(dimension_data) ==
    IF NonEmptyDict(dimension_data)
    THEN LET a == Get(dimension_data[1], "A")
             b == Get(dimension_data[1], "B")
             c == Get(dimension_data[1], "C")
             d == Get(dimension_data[1], "D")
             length == IF a # <<>> /\ b # <<>> THEN <<a[1] + b[1]>> ELSE <<>>
             width == IF c # <<>> /\ d # <<>> THEN <<c[1] + d[1]>> ELSE <<>>
         IN <<length, width>>
    ELSE << <<>>, <<>> >>

\* The collector computes length and width of a static message.
CollectorDimensions ==
    /\ collector_dimensions = <<>>
    /\ collector_dimensions' = InlineDimensions(ship_data)
    /\ UNCHANGED <<process_vars, ship_data, service_dimensions, timestamp_str,
                   parsed_dt>>

\* The correction service computes them for the same message.
ServiceDimensions ==
    /\ service_dimensions = <<>>
    /\ service_dimensions' = calculate_correct_dimensions(DimensionOf(ship_data))
    /\ UNCHANGED <<process_vars, ship_data, collector_dimensions, timestamp_str,
                   parsed_dt>>

NextDimensions ==
    \/ CollectorDimensions
    \/ ServiceDimensions

\* The two computations of length and width on every ShipStaticData object
\* of the study, apart from the message loop.
InitDimensions ==
    /\ InitWith(EmptyTables)
    /\ ship_data \in ShipDataObjects
    /\ collector_dimensions = <<>>
    /\ service_dimensions = <<>>
    /\ timestamp_str = <<>>
    /\ parsed_dt = <<>>

SpecDimensions == InitDimensions /\ [][NextDimensions]_vars

(* ----------------------------- parse_timestamp ----------------------- *)

\* A string is the sequence of its characters.
DigitChars == <<"0", "1", "2", "3", "4", "5", "6", "7", "8", "9">>

\* \d
Digits == {DigitChars[i] : i \in 1..10}

\* \s, as far as the strings of the study go: space, tab, newline.
Whitespace == {" ", "\t", "\n"}

DigitValue(c) == (CHOOSE i \in 1..10 : DigitChars[i] = c) - 1

\* int() of a string of digits.
RECURSIVE Number(_)
Number(str) ==
    IF str = <<>> THEN 0
    ELSE 10 * Number(SubSeq(str, 1, Len(str) - 1)) + DigitValue(str[Len(str)])

\* timestamp_str.replace(" UTC", ""): every occurrence, left to right.
RECURSIVE RemoveUTC(_)
RemoveUTC(str) ==
    IF Len(str) < 4 THEN str
    ELSE IF SubSeq(str, 1, 4) = <<" ", "U", "T", "C">>
         THEN RemoveUTC(SubSeq(str, 5, Len(str)))
         ELSE <<Head(str)>> \o RemoveUTC(Tail(str))

AllDigits(str, from, to) == \A k \in from..to : str[k] \in Digits

\* The whole string has the form of
\* (\d{4}-\d{2}-\d{2} \d{2}:\d{2}:\d{2})\.(\d+)\s(\+\d{4})
Pattern(str) ==
    /\ Len(str) >= 27
    /\ AllDigits(str, 1, 4) /\ str[5] = "-"
    /\ AllDigits(str, 6, 7) /\ str[8] = "-"
    /\ AllDigits(str, 9, 10) /\ str[11] = " "
    /\ AllDigits(str, 12, 13) /\ str[14] = ":"
    /\ AllDigits(str, 15, 16) /\ str[17] = ":"
    /\ AllDigits(str, 18, 19) /\ str[20] = "."
    /\ AllDigits(str, 21, Len(str) - 6)
    /\ str[Len(str) - 5] \in Whitespace
    /\ str[Len(str) - 4] = "+"
    /\ AllDigits(str, Len(str) - 3, Len(str))

\* The three groups of a string of that form.
Groups(str) ==
    [date_time |-> SubSeq(str, 1, 19),
     fraction  |-> SubSeq(str, 21, Len(str) - 6),
     tz        |-> SubSeq(str, Len(str) - 4, Len(str))]

\* re.match(pattern, ts) with ^ and $: $ also matches before a final newline.
\* None is <<>>.
Match(ts) ==
    IF Pattern(ts) THEN <<Groups(ts)>>
    ELSE IF ts # <<>> /\ ts[Len(ts)] = "\n" /\ Pattern(SubSeq(ts, 1, Len(ts) - 1))
         THEN <<Groups(SubSeq(ts, 1, Len(ts) - 1))>>
         ELSE <<>>

\* Mutant: the fraction is passed on whole.
FractionKept(fraction) == fraction

\* match.group(2)[:6]
Truncated(fraction) == SubSeq(fraction, 1, Min(6, Len(fraction)))

IsLeap(year) == year % 4 = 0 /\ (year % 100 # 0 \/ year % 400 = 0)

DaysInMonth(year, month) ==
    IF month = 2 THEN (IF IsLeap(year) THEN 29 ELSE 28)
    ELSE IF month \in {4, 6, 9, 11} THEN 30 ELSE 31

RECURSIVE Pow10(_)
Pow10(n) == IF n <= 0 THEN 1 ELSE 10 * Pow10(n - 1)

\* What raising ValueError is, where a datetime dt is <<dt>>.
ValueError == <<>>

\* datetime.strptime(date_time + "." + fraction + tz, "%Y-%m-%d %H:%M:%S.%f%z")
\* on the groups of a match: %f takes 1 to 6 digits and pads them on the right,
\* the fields must be a date and a time of day, and the offset less than a day.
strptime(date_time, fraction, tz) ==
    LET year   == Number(SubSeq(date_time, 1, 4))
        month  == Number(SubSeq(date_time, 6, 7))
        day    == Number(SubSeq(date_time, 9, 10))
        hour   == Number(SubSeq(date_time, 12, 13))
        minute == Number(SubSeq(date_time, 15, 16))
        second == Number(SubSeq(date_time, 18, 19))
        tz_hours   == Number(SubSeq(tz, 2, 3))
        tz_minutes == Number(SubSeq(tz, 4, 5))
    IN IF /\ Len(fraction) \in 1..6
          /\ year >= 1
          /\ month \in 1..12
          /\ day \in 1..DaysInMonth(year, month)
          /\ hour <= 23 /\ minute <= 59 /\ second <= 59
          /\ tz_hours <= 23 /\ tz_minutes <= 59
       THEN <<[year |-> year, month |-> month, day |-> day, hour |-> hour,
               minute |-> minute, second |-> second,
               microsecond |-> Number(fraction) * Pow10(6 - Len(fraction)),
               utcoffset |-> 60 * tz_hours + tz_minutes]>>
       ELSE ValueError

parse_timestamp(str) ==
    LET ts == RemoveUTC(str)
        match == Match(ts)
    IN IF match = <<>> THEN ValueError
       ELSE strptime(match[1].date_time, Truncated(match[1].fraction), match[1].tz)

\* The parts the strings of the study are put together from: a date and time
\* (the last day of a leap February, the same day in another year, a "T" for
\* the space),
DateTimes ==
    {<<"2", "0", "2", "4", "-", "0", "2", "-", "2", "9", " ", "2", "3", ":", "5", "9", ":", "5", "9">>,
     <<"2", "0", "2", "3", "-", "0", "2", "-", "2", "9", " ", "2", "3", ":", "5", "9", ":", "5", "9">>,
     <<"2", "0", "2", "4", "-", "0", "2", "-", "2", "9", "T", "2", "3", ":", "5", "9", ":", "5", "9">>}

\* a fraction (none, a bare point, 1, 6, 7 and 9 digits),
Fractions ==
    {<<>>, <<".">>, <<".", "5">>,
     <<".", "1", "2", "3", "4", "5", "6">>,
     <<".", "1", "2", "3", "4", "5", "6", "4">>,
     <<".", "1", "2", "3", "4", "5", "6", "5">>,
     <<".", "1", "2", "3", "4", "5", "6", "7", "8", "9">>}

\* what stands before the offset,
Separators == {<<>>, <<" ">>, <<"\t">>}

\* an offset (none, UTC, east, west),
Offsets ==
    {<<>>, <<"+", "0", "0", "0", "0">>, <<"+", "0", "1", "3", "0">>,
     <<"-", "0", "1", "0", "0">>}

\* and an end.
Suffixes ==
    {<<>>, <<" ", "U", "T", "C">>, <<" ", "U", "T", "C", " ", "U", "T", "C">>,
     <<"\n">>, <<"U", "T", "C">>}

\* The strings of the study, with the empty string (the default of a missing
\* time_utc) and one that has " UTC" in its middle.
TimestampStrings ==
    {dt \o fr \o sep \o off \o suf :
        dt \in DateTimes, fr \in Fractions, sep \in Separators,
        off \in Offsets, suf \in Suffixes}
      \cup {<<>>,
            <<"2", "0", "2", "4", "-", "0", "2", "-", "2", "9", " ", "U", "T", "C", " ", "2", "3", ":", "5", "9", ":", "5", "9", ".", "5", " ", "+", "0", "0", "0", "0">>}

\* parse_timestamp is called on a string and returns or raises.
ParseTimestamp ==
    /\ parsed_dt = <<>>
    /\ parsed_dt' = <<parse_timestamp(timestamp_str)>>
    /\ UNCHANGED <<process_vars, ship_data, collector_dimensions,
                   service_dimensions, timestamp_str>>

NextTimestamps ==
    \/ ParseTimestamp

InitTimestamps ==
    /\ InitWith(EmptyTables)
    /\ ship_data = <<>>
    /\ collector_dimensions = <<>>
    /\ service_dimensions = <<>>
    /\ timestamp_str \in TimestampStrings
    /\ parsed_dt = <<>>

\* parse_timestamp on every string of the study, apart from the message loop.
SpecTimestamps == InitTimestamps /\ [][NextTimestamps]_vars

(* ------------------------------- claims ------------------------------- *)

FlushFailed == flush_log.site # "none" /\ ~flush_log.committed

\* The rows of a table or batch, as a set.
Rows(q) == {q[i] : i \in 1..Len(q)}

\* C1: a flush of the message loop that does not commit leaves the four
\* pending batches exactly as they were when it started.
C1_FailedFlushKeepsBatches ==
    [][(pc = "check" /\ flush_log'.site = "batch" /\ ~flush_log'.committed)
          => UNCHANGED batches]_vars

\* C2: on the disconnection path a flush that fails and is rolled back leaves
\* the four pending batches as they were.
C2_FailedPendingFlushKeepsBatches ==
    [][(/\ pc \in {"recv", "loop"}
        /\ pc' = "loop"
        /\ flush_log'.site = "pending"
        /\ ~flush_log'.committed)
          => UNCHANGED batches]_vars

\* C3: the committed tables change only by a whole flush: every step leaves
\* them alone or adds all rows of all four pending batches at once.
C3_WholeFlushes ==
    [][\/ db' = db
       \/ /\ db'.ships = UpsertShips(db.ships, ships_batch)
          /\ db'.static = db.static \o static_data_batch
          /\ db'.position = db.position \o position_data_batch
          /\ db'.unknown = db.unknown \o unknown_data_batch]_vars

\* C3 witness: one flush has committed rows of three batches.
C3_Witness ==
    /\ flush_log = [site |-> "batch", committed |-> TRUE]
    /\ db.ships # <<>>
    /\ db.static # <<>>
    /\ db.position # <<>>

NoDuplicateRows(q) == \A i, j \in 1..Len(q) : q[i].id = q[j].id => i = j

\* C4: no static, position or unknown record is committed twice, and none
\* leaves its pending batch without being committed.
C4_NoLossNoDuplicate ==
    [][/\ Rows(static_data_batch) \subseteq Rows(static_data_batch') \cup Rows(db'.static)
       /\ Rows(position_data_batch) \subseteq Rows(position_data_batch') \cup Rows(db'.position)
       /\ Rows(unknown_data_batch) \subseteq Rows(unknown_data_batch') \cup Rows(db'.unknown)
       /\ NoDuplicateRows(db'.static)
       /\ NoDuplicateRows(db'.position)
       /\ NoDuplicateRows(db'.unknown)]_vars

C6_BelowBatchSize ==
    /\ pc = "recv" => PendingCount(batches) < BATCH_SIZE
    /\ PendingCount(batches) <= BATCH_SIZE

\* C6 amended: outside the flush decision BATCH_SIZE or more records are
\* pending only when the last flush attempt failed, and more than
\* BATCH_SIZE + 1 are pending only when the last flush attempt failed.
C6_BelowBatchSizeUnlessFailed ==
    /\ (pc # "check" /\ PendingCount(batches) >= BATCH_SIZE) => FlushFailed
    /\ PendingCount(batches) > BATCH_SIZE + 1 => FlushFailed

\* C6 witness: a static message has taken the combined length from below
\* BATCH_SIZE to BATCH_SIZE + 1 and no flush has failed.
C6_Witness ==
    /\ pc = "check"
    /\ PendingCount(batches) = BATCH_SIZE + 1
    /\ ~FlushFailed

\* C7: every message that is read when the interval has passed and records
\* are pending reaches the flush decision before the next message is read.
C7_FlushDecisionAfterEveryMessage ==
    [][(/\ pc = "recv"
        /\ nmsgs' = nmsgs + 1
        /\ ~conn_closed
        /\ elapsed' >= FLUSH_INTERVAL
        /\ PendingCount(batches) > 0)
          => pc' = "check"]_vars

\* The un-jittered delay of attempt n, as the claim lists it.
ExpectedBase(n) == IF n <= 6 THEN <<1, 2, 4, 8, 16, 32>>[n] ELSE 60

\* C8: the delay slept before a (failed) attempt that follows n >= 1 failures is
\* b * j with b = 1, 2, 4, 8, 16, 32, 60, 60, ... and 0.8 <= j <= 1.2.
C8_DelayWithinJitter ==
    (pc = "loop" /\ retry_attempts >= 2) =>
        LET n == retry_attempts - 1
            b == ExpectedBase(n)
        IN /\ b <= max_retry_delay
           /\ 80 * b <= retry_delay
           /\ retry_delay <= 120 * b
           /\ \E j \in 80..120 : retry_delay = b * j

\* C8 witness: the eighth delay in a row, capped at 60 s, with jitter 1.2.
C8_Witness ==
    /\ pc = "loop"
    /\ retry_attempts = 9
    /\ retry_delay = 7200

\* C9 as stated: the counter is not reset before the first message of a
\* connection has been read.
C9_ResetOnFirstMessage ==
    (pc = "recv" /\ ~streaming) => retry_attempts >= 1

\* C9 amended: the counter is 0 from the moment the subscription is sent,
\* whether or not a message is ever read on the connection.
C9_ResetOnSubscribe ==
    pc \in {"recv", "check", "discard"} => retry_attempts = 0

\* C9 witness: subscribed, no message read yet, counter already 0.
C9_Witness ==
    /\ pc = "recv"
    /\ ~streaming
    /\ connected
    /\ retry_attempts = 0

\* C10: after startup no fault ends connect_ais_stream: it never raises, and
\* at the top of the loop the next connection attempt can always be made.
C10_NeverLeavesLoop ==
    /\ pc # "raised"
    /\ pc = "loop" => ENABLED Subscribe

\* C10 witness: after a lost store connection and a failed connection attempt
\* the loop is at its top again.
C10_Witness ==
    /\ pc = "loop"
    /\ retry_attempts = 1
    /\ conn_closed
    /\ nmsgs >= 1

\* The waits of the startup loop, as the claim lists them: 2^0 and 2^1 seconds.
ExpectedWaits == <<1, 2>>

ExitStates == {"exit_migrate", "exit_noshape", "exit_badshape", "exit_db", "exit_shape"}

\* C11: the startup makes at most MAX_DB_RETRIES attempts to reach the store,
\* having waited 2^k seconds after failed attempt k and nothing after the
\* last; when all fail the routine has ended with no mapping loaded, no feed
\* connection and no message read, and can do nothing more; once an attempt
\* has succeeded no further attempt can be made.
C11_StartupAttempts ==
    /\ db_attempt <= MAX_DB_RETRIES - 1
    /\ db_waits = SubSeq(ExpectedWaits, 1, db_attempt)
    /\ pc = "exit_db" =>
          /\ db_attempt = MAX_DB_RETRIES - 1
          /\ conn_closed /\ ~connected
          /\ mmsi_to_imo = <<>> /\ nmsgs = 0 /\ retry_attempts = 0
          /\ ~ENABLED NextBackoff
    /\ pc \notin {"main", "startup"} =>
          ~ENABLED StartupConnectFail /\ ~ENABLED StartupConnectOK

\* C11 witness: the feed is subscribed to after the store was reached by the
\* last attempt, two waits having been slept.
C11_Witness ==
    /\ pc = "recv"
    /\ db_attempt = MAX_DB_RETRIES - 1
    /\ db_waits = <<1, 2>>
    /\ ~conn_closed

\* C12: a process that has ended on a startup failure has a non-zero exit
\* status.
C12_StartupFailureExitsNonZero ==
    pc \in ExitStates => (exit_code # <<>> /\ exit_code # <<0>>)

\* The message is of the given type and has passed every filter.
IsOk(msg, type) == msg # NoMessage /\ Verdict(msg) = "ok" /\ msg.type = <<type>>

\* r is q with one row appended.
Appended(q, r) == Len(r) = Len(q) + 1 /\ SubSeq(r, 1, Len(q)) = q

Last(q) == q[Len(q)]

Malformed(msg) ==
    msg # NoMessage /\ Verdict(msg) \in {"badjson", "notype", "nometa", "badts"}

\* C13: a message that fails to decode, lacks MessageType or MetaData, or has a
\* malformed time_utc changes no pending list and not the mapping, and when
\* its iteration ends the feed connection is still open and the next message
\* is awaited on it.
C13_MalformedOnlyDiscarded ==
    [][/\ (pc = "recv" /\ Malformed(message')) =>
             UNCHANGED <<batches, mmsi_to_imo, connected>>
       /\ (pc = "discard" /\ Malformed(message)) =>
             /\ pc' = "recv"
             /\ connected' = TRUE
             /\ UNCHANGED <<batches, mmsi_to_imo>>]_vars

FailsGeoFilter(msg) == msg # NoMessage /\ Verdict(msg) \in {"nocoords", "outside"}

\* C14: a message without latitude or longitude, or with a point in no
\* polygon, adds exactly 1 to filtered_count and changes no pending list, not
\* the mapping, not the sets of unique vessels and no other counter.
C14_GeoFilterFailureCounted ==
    [][(pc = "recv" /\ FailsGeoFilter(message')) =>
          /\ stats' = [stats EXCEPT !.filtered_count = @ + 1]
          /\ UNCHANGED <<batches, mmsi_to_imo>>]_vars

\* The point lies inside a polygon of the region boundary.
InSomePolygon(lat, lon) ==
    \E i \in 1..Len(north_sea_shape) : contains(north_sea_shape[i], lat, lon)

RowsInRegion(q) == \A i \in 1..Len(q) : InSomePolygon(q[i].latitude, q[i].longitude)

\* C15: every pending and every committed static, position and unknown record
\* carries a point inside a polygon of the region, and a registry upsert is
\* appended only while a message from inside a polygon is processed.
C15_RecordsFromRegion ==
    /\ [](/\ RowsInRegion(static_data_batch)
          /\ RowsInRegion(position_data_batch)
          /\ RowsInRegion(unknown_data_batch)
          /\ RowsInRegion(db.static)
          /\ RowsInRegion(db.position)
          /\ RowsInRegion(db.unknown))
    /\ [][Len(ships_batch') > Len(ships_batch) =>
             /\ message' # NoMessage
             /\ message'.latitude # <<>> /\ message'.longitude # <<>>
             /\ InSomePolygon(message'.latitude[1], message'.longitude[1])]_vars

\* C15 witness: a message from the gap between the polygons was filtered and a
\* position record from the second polygon is committed.
C15_Witness ==
    /\ stats.filtered_count >= 1
    /\ \E i \in 1..Len(db.position) : db.position[i].latitude = 5

\* C16: a PositionReport that passes the filters has exactly one of three
\* effects: a position record with an IMO is appended, an unknown record with
\* its MMSI is appended (switch on), or no_imo_filtered_count grows by 1
\* (switch off).
C16_PositionReportAccounted ==
    [][(pc = "recv" /\ IsOk(message', "PositionReport")) =>
          LET a == /\ Appended(position_data_batch, position_data_batch')
                   /\ Last(position_data_batch').imo \in FeedImos
              b == /\ Appended(unknown_data_batch, unknown_data_batch')
                   /\ Last(unknown_data_batch').mmsi = message'.mmsi
                   /\ save_no_imo
              c == /\ stats'.no_imo_filtered_count = stats.no_imo_filtered_count + 1
                   /\ ~save_no_imo
              na == position_data_batch' = position_data_batch
              nb == unknown_data_batch' = unknown_data_batch
              nc == stats'.no_imo_filtered_count = stats.no_imo_filtered_count
          IN \/ a /\ nb /\ nc
             \/ na /\ b /\ nc
             \/ na /\ nb /\ c]_vars

\* C16 witness: a position report whose IMO the store supplied has its record
\* pending.
C16_Witness ==
    /\ pc = "check"
    /\ IsOk(message, "PositionReport")
    /\ imo_queries = 1
    /\ position_data_batch # <<>>

\* C17: a ShipStaticData message that passes the filters appends one registry
\* upsert and one static record and nothing else when ImoNumber is neither
\* null nor 0; otherwise it appends nothing to those two lists, and either an
\* unknown record with IMO -1 (null) or 0 (switch on) or nothing, with
\* no_imo_filtered_count grown by 1 (switch off).
C17_StaticDataClassified ==
    [][(pc = "recv" /\ IsOk(message', "ShipStaticData")) =>
          LET raw == message'.imo
              counted == stats'.no_imo_filtered_count - stats.no_imo_filtered_count
          IN IF raw # <<>> /\ raw # <<0>>
             THEN /\ Appended(ships_batch, ships_batch')
                  /\ Last(ships_batch').imo = raw[1]
                  /\ Appended(static_data_batch, static_data_batch')
                  /\ Last(static_data_batch').imo = raw[1]
                  /\ unknown_data_batch' = unknown_data_batch
                  /\ counted = 0
             ELSE /\ ships_batch' = ships_batch
                  /\ static_data_batch' = static_data_batch
                  /\ IF save_no_imo
                     THEN /\ Appended(unknown_data_batch, unknown_data_batch')
                          /\ Last(unknown_data_batch').imo = (IF raw = <<>> THEN -1 ELSE 0)
                          /\ counted = 0
                     ELSE /\ unknown_data_batch' = unknown_data_batch
                          /\ counted = 1]_vars

\* C17 witness: a static message with ImoNumber 0 was counted, not saved.
C17_Witness ==
    /\ pc = "check"
    /\ IsOk(message, "ShipStaticData")
    /\ message.imo = <<0>>
    /\ ~save_no_imo
    /\ stats.no_imo_filtered_count = 1
    /\ PendingCount(batches) = 0

\* C18: after a ShipStaticData message with a valid IMO i and an MMSI m the
\* mapping takes m to i whatever it held before, and after one without a valid
\* IMO the mapping is what it was.
C18_LastWriterWins ==
    [][(pc = "recv" /\ IsOk(message', "ShipStaticData")) =>
          LET raw == message'.imo
              mmsi == message'.mmsi
          IN /\ (raw # <<>> /\ raw # <<0>> /\ mmsi # <<>>) =>
                   /\ mmsi[1] \in DOMAIN mmsi_to_imo'
                   /\ mmsi_to_imo'[mmsi[1]] = raw[1]
             /\ (raw = <<>> \/ raw = <<0>>) => mmsi_to_imo' = mmsi_to_imo]_vars

\* C18 witness: MMSI 1 resolved to IMO 2 for a position record that is still
\* pending, and a static message has since mapped it to IMO 1.
C18_Witness ==
    /\ pc = "check"
    /\ IsOk(message, "ShipStaticData")
    /\ message.mmsi = <<1>> /\ message.imo = <<1>>
    /\ position_data_batch # <<>> /\ position_data_batch[1].imo = 2
    /\ 1 \in DOMAIN mmsi_to_imo /\ mmsi_to_imo[1] = 1

\* C19: resolving an MMSI that the mapping does not hold sends one query to
\* the store, and an IMO the store holds for it is written into the mapping;
\* resolving an MMSI the mapping holds sends none and leaves its entry alone.
C19_ResolveQueriesOnce ==
    [][(pc = "recv" /\ IsOk(message', "PositionReport") /\ message'.mmsi # <<>>) =>
          LET m == message'.mmsi[1]
              stored == {i \in 1..Len(db.ships) : db.ships[i].mmsi = <<m>>}
          IN IF m \notin DOMAIN mmsi_to_imo
             THEN /\ imo_queries' = 1
                  /\ stored # {} =>
                        /\ m \in DOMAIN mmsi_to_imo'
                        /\ \E i \in stored : mmsi_to_imo'[m] = db.ships[i].imo
             ELSE /\ imo_queries' = 0
                  /\ mmsi_to_imo'[m] = mmsi_to_imo[m]]_vars

\* C20: the registry holds one row for an IMO; the pending upserts are in feed
\* order and later than what the registry holds; and a flush that writes the
\* registry leaves, for every IMO it upserts, the attributes of the latest
\* pending upsert of that IMO.
C20_RegistryLastWriteWins ==
    /\ [](/\ \A i, j \in 1..Len(db.ships) :
                db.ships[i].imo = db.ships[j].imo => i = j
          /\ \A i, j \in 1..Len(ships_batch) :
                i < j => ships_batch[i].name < ships_batch[j].name
          /\ \A i \in 1..Len(db.ships), j \in 1..Len(ships_batch) :
                db.ships[i].name < ships_batch[j].name)
    /\ [][db'.ships # db.ships =>
             \A j \in 1..Len(ships_batch) :
                \E i \in 1..Len(db'.ships) :
                   /\ db'.ships[i].imo = ships_batch[j].imo
                   /\ db'.ships[i].name >= ships_batch[j].name
                   /\ \E h \in 1..Len(ships_batch) :
                         /\ ships_batch[h].imo = ships_batch[j].imo
                         /\ ships_batch[h].name = db'.ships[i].name]_vars

\* C20 witness: two static messages of one IMO are committed and the registry
\* row carries the attributes of the second.
C20_Witness ==
    /\ Len(db.ships) = 1
    /\ Len(db.static) = 2
    /\ db.static[1].imo = db.static[2].imo
    /\ db.static[1].id < db.static[2].id
    /\ db.ships[1].name = db.static[2].id

\* C21: a registry row keeps its IMO and its MMSI through every step, and a row
\* that a flush creates carries the MMSI of the first pending upsert of its
\* IMO, whatever MMSI later upserts of that IMO carry.
C21_MmsiKeptOnConflict ==
    [][/\ Len(db'.ships) >= Len(db.ships)
       /\ \A i \in 1..Len(db.ships) :
             /\ db'.ships[i].imo = db.ships[i].imo
             /\ db'.ships[i].mmsi = db.ships[i].mmsi
       /\ \A i \in (Len(db.ships) + 1)..Len(db'.ships) :
             \E j \in 1..Len(ships_batch) :
                /\ ships_batch[j].imo = db'.ships[i].imo
                /\ ships_batch[j].mmsi = db'.ships[i].mmsi
                /\ \A h \in 1..(j - 1) : ships_batch[h].imo # ships_batch[j].imo]_vars

\* C21 witness: a static message with another MMSI is committed for an IMO
\* whose registry row existed, the row has taken the message's attributes and
\* kept its MMSI.
C21_Witness ==
    \E i \in 1..Len(db.ships), j \in 1..Len(db.static) :
       /\ db.static[j].imo = db.ships[i].imo
       /\ db.static[j].mmsi # db.ships[i].mmsi
       /\ db.ships[i].name = db.static[j].id

\* The static observations made so far, committed and pending, in feed order.
StaticSeen == db.static \o static_data_batch

\* C22: a PositionReport for MMSI m that follows a static observation with
\* MMSI m and IMO i, no static observation for i in between, gets a position
\* record with IMO i and that observation's destination, whether or not the
\* observation has been flushed.
C22_PositionCarriesDestination ==
    [][(pc = "recv" /\ IsOk(message', "PositionReport") /\ message'.mmsi # <<>>) =>
          LET of_mmsi == {j \in 1..Len(StaticSeen) : StaticSeen[j].mmsi = message'.mmsi}
          IN \A j \in of_mmsi :
                (/\ \A h \in of_mmsi : h <= j
                 /\ \A h \in (j + 1)..Len(StaticSeen) :
                       StaticSeen[h].imo # StaticSeen[j].imo)
                   => /\ Appended(position_data_batch, position_data_batch')
                      /\ Last(position_data_batch').imo = StaticSeen[j].imo
                      /\ Last(position_data_batch').dest = StaticSeen[j].id]_vars

\* The part of a ShipStaticData object's Dimension, absent when there is no
\* Dimension, no such key or a null value.
Part(sd, key) ==
    IF "Dimension" \in DOMAIN sd /\ sd["Dimension"] # <<>>
       /\ key \in DOMAIN sd["Dimension"][1]
    THEN sd["Dimension"][1][key]
    ELSE <<>>

\* C23: length is A+B when A and B are both present and absent otherwise,
\* width is C+D when C and D are both present and absent otherwise, and
\* calculate_correct_dimensions returns what the collector computes.
C23_DimensionsNeverPartial ==
    /\ collector_dimensions # <<>> =>
          LET a == Part(ship_data, "A")
              b == Part(ship_data, "B")
              c == Part(ship_data, "C")
              d == Part(ship_data, "D")
          IN /\ (a # <<>> /\ b # <<>>) => collector_dimensions[1] = <<a[1] + b[1]>>
             /\ (a = <<>> \/ b = <<>>) => collector_dimensions[1] = <<>>
             /\ (c # <<>> /\ d # <<>>) => collector_dimensions[2] = <<c[1] + d[1]>>
             /\ (c = <<>> \/ d = <<>>) => collector_dimensions[2] = <<>>
    /\ (collector_dimensions # <<>> /\ service_dimensions # <<>>) =>
          service_dimensions = collector_dimensions

\* C23 witness: both computations have run on a Dimension with A, B and C and
\* a null D: a length and no width.
C23_Witness ==
    /\ ship_data = [Dimension |-> <<[A |-> <<2>>, B |-> <<0>>, C |-> <<2>>, D |-> <<>>]>>]
    /\ collector_dimensions = << <<2>>, <<>> >>
    /\ service_dimensions = << <<2>>, <<>> >>

UTC == <<" ", "U", "T", "C">>

\* The parts of the study that have the form the claim describes: a date and
\* time with a space, a point with digits, an offset with a plus sign.
ShapedDateTimes == {dt \in DateTimes : dt[11] = " "}

ShapedFractions == {fr \in Fractions : Len(fr) >= 2}

ShapedOffsets == {off \in Offsets : off # <<>> /\ off[1] = "+"}

\* 'YYYY-MM-DD HH:MM:SS.<digits> +HHMM UTC'
HasShape(str) ==
    \E dt \in ShapedDateTimes, fr \in ShapedFractions, off \in ShapedOffsets :
       str = dt \o fr \o <<" ">> \o off \o UTC

\* The same with the variations the function lets pass: a tab for the space
\* before the offset, no " UTC", two of them, one in the middle, a final
\* newline.
HasLooseShape(str) ==
    \/ \E dt \in ShapedDateTimes, fr \in ShapedFractions, sep \in {<<" ">>, <<"\t">>},
          off \in ShapedOffsets, suf \in {<<>>, UTC, UTC \o UTC, <<"\n">>} :
          str = dt \o fr \o sep \o off \o suf
    \/ \E dt \in ShapedDateTimes, fr \in ShapedFractions, off \in ShapedOffsets :
          str = SubSeq(dt, 1, 10) \o UTC \o SubSeq(dt, 11, 19) \o fr \o <<" ">> \o off

\* The string has a plus sign followed by four digits.
HasOffset(str) ==
    \E k \in 1..(Len(str) - 4) : str[k] = "+" /\ AllDigits(str, k + 1, k + 4)

\* The fraction of the string has six digits or more.
SixDigits(str) == Len(str) >= 26 /\ str[20] = "." /\ AllDigits(str, 21, 26)

\* The string with the digits after the sixth of its fraction replaced.
BeyondSixth(str, digits) ==
    LET last == CHOOSE k \in 26..Len(str) :
                   /\ AllDigits(str, 21, k)
                   /\ k = Len(str) \/ str[k + 1] \notin Digits
    IN SubSeq(str, 1, 26) \o digits \o SubSeq(str, last + 1, Len(str))

\* Whatever follows the sixth digit of the fraction, the result is the same.
SameBeyondSixth ==
    SixDigits(timestamp_str) =>
       \A digits \in {<<>>, <<"4">>, <<"5">>, <<"9", "9", "9">>} :
          parse_timestamp(BeyondSixth(timestamp_str, digits)) = parsed_dt[1]

\* C24 as stated: the digits beyond the sixth of the fraction do not change
\* the result, and every string that has not the shape
\* 'YYYY-MM-DD HH:MM:SS.<digits> +HHMM UTC' raises an error.
C24_ParseTimestampStrict ==
    parsed_dt # <<>> =>
       /\ SameBeyondSixth
       /\ ~HasShape(timestamp_str) => parsed_dt[1] = ValueError

\* C24 amended: the digits beyond the sixth of the fraction do not change the
\* result, a string of the shape with a real date and time gives the instant
\* whose microseconds are the first six digits, a string without a +HHMM
\* offset raises an error, and so does every string that has not the shape
\* once " UTC" is removed from it; the " UTC" itself is not required.
C24_ParseTimestamp ==
    parsed_dt # <<>> =>
       /\ SameBeyondSixth
       /\ (HasShape(timestamp_str) /\ SubSeq(timestamp_str, 1, 4) = <<"2", "0", "2", "4">>) =>
             /\ parsed_dt[1] # ValueError
             /\ SixDigits(timestamp_str) =>
                   parsed_dt[1][1].microsecond = Number(SubSeq(timestamp_str, 21, 26))
       /\ ~HasOffset(timestamp_str) => parsed_dt[1] = ValueError
       /\ ~HasLooseShape(timestamp_str) => parsed_dt[1] = ValueError

\* C24 witness: a string with a fraction of seven digits ending in 5 and no
\* " UTC" was parsed: microsecond 123456, not 123457.
C24_Witness ==
    /\ timestamp_str = <<"2", "0", "2", "4", "-", "0", "2", "-", "2", "9", " ",
                         "2", "3", ":", "5", "9", ":", "5", "9",
                         ".", "1", "2", "3", "4", "5", "6", "5", " ",
                         "+", "0", "1", "3", "0">>
    /\ parsed_dt = << <<[year |-> 2024, month |-> 2, day |-> 29, hour |-> 23,
                         minute |-> 59, second |-> 59, microsecond |-> 123456,
                         utcoffset |-> 90]>> >>

\* C25: when the feed connection ends while the next message is awaited, by
\* a close or by an exception, with records pending and the store connection
\* open, the pending batches are flushed, or the flush fails, before the loop
\* is back at its top.
C25_FlushOnEveryDisconnection ==
    [][(/\ pc = "recv" /\ pc' = "loop"
        /\ nmsgs' = nmsgs
        /\ PendingCount(batches) > 0
        /\ ~conn_closed)
          => /\ flush_log'.site = "pending"
             /\ PendingCount(batches') = 0 \/ conn_closed']_vars

\* The rows are in the order of the messages they come from.
InFeedOrder(q) == \A i, j \in 1..Len(q) : i < j => q[i].id < q[j].id

IsPrefix(q, r) == Len(q) <= Len(r) /\ SubSeq(r, 1, Len(q)) = q

\* C26: in each of the three tables of observations the committed rows,
\* followed by the pending ones, are in the order of the messages they come
\* from, and a step adds committed rows only behind those a table holds.
C26_ArrivalOrderPreserved ==
    /\ [](/\ InFeedOrder(db.static \o static_data_batch)
          /\ InFeedOrder(db.position \o position_data_batch)
          /\ InFeedOrder(db.unknown \o unknown_data_batch))
    /\ [][/\ IsPrefix(db.static, db'.static)
          /\ IsPrefix(db.position, db'.position)
          /\ IsPrefix(db.unknown, db'.unknown)]_vars

\* C26 witness: two static records of one connection are committed in feed
\* order, the first by a flush of the message loop and the second by the flush
\* on disconnection.
C26_Witness ==
    /\ Len(db.static) = 2
    /\ db.static[1].id = 1
    /\ db.static[2].id = 3
    /\ flush_log = [site |-> "pending", committed |-> TRUE]

\* C30: every pending position record has its IMO in a committed registry row
\* or in a pending registry upsert.
C30_PositionsHaveRegistryRow ==
    \A j \in 1..Len(position_data_batch) :
       \/ \E i \in 1..Len(db.ships) : db.ships[i].imo = position_data_batch[j].imo
       \/ \E i \in 1..Len(ships_batch) : ships_batch[i].imo = position_data_batch[j].imo

\* A record of the message with that number is pending, or is committed.
PendingId(id) ==
    \E q \in {static_data_batch, position_data_batch, unknown_data_batch} :
       \E i \in 1..Len(q) : q[i].id = id

CommittedId(id) ==
    \E q \in {db.static, db.position, db.unknown} :
       \E i \in 1..Len(q) : q[i].id = id

\* C27: once the store accepts connections and writes and messages keep
\* arriving, every record that is pending is eventually committed.
C27_PendingEventuallyCommitted ==
    \A id \in 1..MaxMsgs :
       (nmsgs = MaxMsgs /\ PendingId(id)) ~> CommittedId(id)

\* C28: the MMSIs with a resolved IMO are among the MMSIs observed, so the
\* coverage ratio of the two counts is at most 1.
C28_WithImoSubsetOfVessels ==
    /\ stats.unique_vessels_with_imo \subseteq stats.unique_vessels
    /\ Cardinality(stats.unique_vessels_with_imo) <= Cardinality(stats.unique_vessels)

\* One pass from the top of the loop: the attempt is counted, and either the
\* receive loop is entered or the attempt fails before the subscription.
Attempted == pc = "loop" /\ (pc' = "recv" \/ retry_attempts' = retry_attempts + 1)

\* A subscribed connection ends, for whatever reason.
ConnectionEnded == pc \in {"recv", "check", "discard"} /\ pc' = "loop"

\* C29: when a subscribed connection ends the attempt counter is 0, the counter
\* is positive at the top of the loop only after an attempt that failed before
\* the subscription, and a delay is slept before an attempt exactly when the
\* counter is positive: the attempt that follows a subscribed connection is
\* made without any wait.
C29_DelayOnlyAfterFailedAttempt ==
    [][/\ ConnectionEnded => retry_attempts' = 0
       /\ (pc' = "loop" /\ retry_attempts' > 0) =>
              (pc = "loop" /\ retry_attempts' = retry_attempts + 1)
       /\ Attempted => (retry_delay' > 0 <=> retry_attempts > 0)
       /\ (Attempted /\ retry_attempts > 0) =>
              \E jitter \in JitterPercents :
                 retry_delay' = JitteredDelay(retry_attempts, jitter)]_vars

\* C29 witness: an earlier connection delivered a message and ended, and the
\* feed is subscribed to again, without a delay, on a connection that has not
\* delivered anything yet.
C29_Witness ==
    /\ pc = "recv"
    /\ ~streaming
    /\ nmsgs >= 1
    /\ retry_attempts = 0
    /\ retry_delay = 0

=============================================================================
